---- MODULE Spec2Model ----
(***************************************************************************)
(* Model of the French Audio Translator websocket session                  *)
(* (src/app/main.py, src/app/translator.py).                               *)
(*                                                                         *)
(* Text is a sequence of one-character strings, so that strip, lower,      *)
(* split and join are computed as Python computes them.                    *)
(***************************************************************************)
EXTENDS Naturals, Integers, Sequences, FiniteSets, TLC

(***************************************************************************)
(* Bounds of the model.                                                    *)
(***************************************************************************)
\* Frames the clients send, all connections together.
MaxFrames == 2
\* Tokens the real engine pushes to the streamer in one generation.
MaxTokens == 2
\* Calls of load_model the event loop's thread makes.
MaxLoads == 3
\* Words of a text given to detect_french directly, and calls made on it.
MaxWords == 3
MaxCalls == 2

(***************************************************************************)
(* Python str operations used by the program.                              *)
(***************************************************************************)
\* Texts are over Latin-1 (the code points up to U+00FF).  The characters
\* str.strip() and str.split() take for whitespace: space, tab, line feed,
\* carriage return, form feed, vertical tab (U+000B), the separators U+001C
\* to U+001F, next line (U+0085) and the no-break space (U+00A0).
Whitespace == {" ", "\t", "\n", "\r", "\f",
               "", "", "", "", "", "", " "}

\* The letters str.lower() changes, and what it makes of them: A to Z, and
\* the accented capitals U+00C0 to U+00DE (the sign U+00D7 is no letter).
UpperCase == <<"A", "B", "C", "D", "E", "F", "G", "H", "I", "J", "K", "L", "M",
               "N", "O", "P", "Q", "R", "S", "T", "U", "V", "W", "X", "Y", "Z",
               "À", "Á", "Â", "Ã", "Ä", "Å", "Æ", "Ç", "È", "É",
               "Ê", "Ë", "Ì", "Í", "Î", "Ï", "Ð", "Ñ", "Ò", "Ó",
               "Ô", "Õ", "Ö", "Ø", "Ù", "Ú", "Û", "Ü", "Ý", "Þ">>

LowerCase == <<"a", "b", "c", "d", "e", "f", "g", "h", "i", "j", "k", "l", "m",
               "n", "o", "p", "q", "r", "s", "t", "u", "v", "w", "x", "y", "z",
               "à", "á", "â", "ã", "ä", "å", "æ", "ç", "è", "é",
               "ê", "ë", "ì", "í", "î", "ï", "ð", "ñ", "ò", "ó",
               "ô", "õ", "ö", "ø", "ù", "ú", "û", "ü", "ý", "þ">>

\* c.lower(), for each of these letters.
LowerOf == [c \in {UpperCase[i] : i \in DOMAIN UpperCase} |->
               LowerCase[CHOOSE i \in DOMAIN UpperCase : UpperCase[i] = c]]

lowerChar(c) == IF c \in DOMAIN LowerOf THEN LowerOf[c] ELSE c

RECURSIVE lower(_)
\* str.lower()
lower(s) ==
    IF s = <<>> THEN <<>> ELSE <<lowerChar(Head(s))>> \o lower(Tail(s))

RECURSIVE lstripOf(_, _)
lstripOf(s, chars) ==
    IF s = <<>> THEN s
    ELSE IF Head(s) \in chars THEN lstripOf(Tail(s), chars) ELSE s

RECURSIVE rstripOf(_, _)
rstripOf(s, chars) ==
    IF s = <<>> THEN s
    ELSE IF s[Len(s)] \in chars THEN rstripOf(SubSeq(s, 1, Len(s) - 1), chars) ELSE s

\* str.strip(chars)
stripOf(s, chars) == rstripOf(lstripOf(s, chars), chars)

\* str.strip()
strip(s) == stripOf(s, Whitespace)

RECURSIVE splitFrom(_, _, _)
splitFrom(s, cur, acc) ==
    IF s = <<>>
    THEN IF cur = <<>> THEN acc ELSE Append(acc, cur)
    ELSE IF Head(s) \in Whitespace
         THEN splitFrom(Tail(s), <<>>, IF cur = <<>> THEN acc ELSE Append(acc, cur))
         ELSE splitFrom(Tail(s), Append(cur, Head(s)), acc)

\* str.split(): the maximal runs of non-whitespace characters
split(s) == splitFrom(s, <<>>, <<>>)

RECURSIVE join(_, _)
\* sep.join(words)
join(sep, words) ==
    IF words = <<>> THEN <<>>
    ELSE IF Len(words) = 1 THEN words[1]
    ELSE words[1] \o sep \o join(sep, Tail(words))

RECURSIVE concat(_)
\* "".join(chunks): what repeated += builds
concat(chunks) ==
    IF chunks = <<>> THEN <<>> ELSE Head(chunks) \o concat(Tail(chunks))

(***************************************************************************)
(* MockTranslator (translator.py).                                         *)
(***************************************************************************)
MOCK_KEYS ==
    { <<"b", "o", "n", "j", "o", "u", "r">>,
      <<"m", "o", "n", "d", "e">>,
      <<"c", "o", "m", "m", "e", "n", "t">>,
      <<"a", "l", "l", "e", "z">>,
      <<"v", "o", "u", "s">>,
      <<"j", "e">>,
      <<"s", "u", "i", "s">>,
      <<"m", "e", "r", "c", "i">>,
      <<"o", "u", "i">>,
      <<"n", "o", "n">>,
      <<"b", "i", "e", "n">>,
      <<"t", "r", "e", "s">>,
      <<"a", "u", "j", "o", "u", "r", "d", "'", "h", "u", "i">> }

MOCK_TRANSLATIONS(k) ==
    CASE k = <<"b", "o", "n", "j", "o", "u", "r">> -> <<"h", "e", "l", "l", "o">>
      [] k = <<"m", "o", "n", "d", "e">> -> <<"w", "o", "r", "l", "d">>
      [] k = <<"c", "o", "m", "m", "e", "n", "t">> -> <<"h", "o", "w">>
      [] k = <<"a", "l", "l", "e", "z">> -> <<"a", "r", "e">>
      [] k = <<"v", "o", "u", "s">> -> <<"y", "o", "u">>
      [] k = <<"j", "e">> -> <<"I">>
      [] k = <<"s", "u", "i", "s">> -> <<"a", "m">>
      [] k = <<"m", "e", "r", "c", "i">> -> <<"t", "h", "a", "n", "k", " ", "y", "o", "u">>
      [] k = <<"o", "u", "i">> -> <<"y", "e", "s">>
      [] k = <<"n", "o", "n">> -> <<"n", "o">>
      [] k = <<"b", "i", "e", "n">> -> <<"w", "e", "l", "l">>
      [] k = <<"t", "r", "e", "s">> -> <<"v", "e", "r", "y">>
      [] k = <<"a", "u", "j", "o", "u", "r", "d", "'", "h", "u", "i">> -> <<"t", "o", "d", "a", "y">>

\* The body of the loop of MockTranslator.translate: one word's translation.
translateWord(word) ==
    LET clean_word == stripOf(word, {".", ",", "!", "?"})
    IN  IF clean_word \in MOCK_KEYS
        THEN MOCK_TRANSLATIONS(clean_word)
        ELSE <<"[">> \o word \o <<"]">>

RECURSIVE translateWords(_)
\* The loop of MockTranslator.translate: the list translated.
translateWords(words) ==
    IF words = <<>> THEN <<>>
    ELSE <<translateWord(Head(words))>> \o translateWords(Tail(words))

\* translate without text.lower()
translate_NoLower(text) == join(<<" ">>, translateWords(split(text)))

\* MockTranslator.translate(text)
translate(text) == join(<<" ">>, translateWords(split(lower(text))))

RECURSIVE yieldWords(_)
\* The loop of MockTranslator.translate_stream: yield word + " "
yieldWords(words) ==
    IF words = <<>> THEN <<>>
    ELSE <<Head(words) \o <<" ">>>> \o yieldWords(Tail(words))

\* MockTranslator.translate_stream(text): the chunks it yields, in order.
translate_stream(text) == yieldWords(split(translate(text)))

(***************************************************************************)
(* detect_french (main.py).  A probability is a fraction <<num, den>>.     *)
(***************************************************************************)
french_indicators ==
    { <<"j", "e">>, <<"t", "u">>, <<"i", "l">>, <<"e", "l", "l", "e">>,
      <<"n", "o", "u", "s">>, <<"v", "o", "u", "s">>, <<"i", "l", "s">>,
      <<"e", "l", "l", "e", "s">>,
      <<"l", "e">>, <<"l", "a">>, <<"l", "e", "s">>, <<"u", "n">>,
      <<"u", "n", "e">>, <<"d", "e", "s">>, <<"d", "e">>, <<"d", "u">>,
      <<"e", "s", "t">>, <<"s", "o", "n", "t">>, <<"s", "u", "i", "s">>,
      <<"e", "s">>, <<"s", "o", "m", "m", "e", "s">>, <<"e", "t", "e", "s">>,
      <<"b", "o", "n", "j", "o", "u", "r">>, <<"m", "e", "r", "c", "i">>,
      <<"o", "u", "i">>, <<"n", "o", "n">>, <<"a", "v", "e", "c">>,
      <<"p", "o", "u", "r">>,
      <<"q", "u", "e">>, <<"q", "u", "i">>, <<"q", "u", "o", "i">>,
      <<"c", "o", "m", "m", "e", "n", "t">>,
      <<"p", "o", "u", "r", "q", "u", "o", "i">>, <<"o", "u">> }

\* detect_fallback without text.lower()
detect_fallback_NoLower(text) ==
    LET words == split(text)
        french_count == Cardinality({i \in DOMAIN words : words[i] \in french_indicators})
        total == IF Len(words) > 1 THEN Len(words) ELSE 1
    IN  [is_french |-> 10 * french_count > 3 * total,
         confidence |-> <<french_count, total>>]

\* The except branch of detect_french: the lexical fallback.
detect_fallback(text) ==
    LET words == split(lower(text))
        french_count == Cardinality({i \in DOMAIN words : words[i] \in french_indicators})
        total == IF Len(words) > 1 THEN Len(words) ELSE 1
    IN  [is_french |-> 10 * french_count > 3 * total,
         confidence |-> <<french_count, total>>]

\* What langdetect.detect_langs does on one call: it raises (not installed,
\* or no features in the text), or it returns ranked candidates.
DetectorOutcomes ==
    { [raises |-> TRUE,  langs |-> <<>>],
      [raises |-> FALSE, langs |-> << [lang |-> "fr", prob |-> <<9, 10>>] >>],
      [raises |-> FALSE, langs |-> << [lang |-> "en", prob |-> <<5, 7>>],
                                      [lang |-> "fr", prob |-> <<2, 7>>] >>],
      [raises |-> FALSE, langs |-> << [lang |-> "en", prob |-> <<1, 1>>] >>] }

\* detect_french(text), given what the detector does on this call.
detect_french(text, det) ==
    IF det.raises
    THEN detect_fallback(text)
    ELSE IF \E i \in DOMAIN det.langs : det.langs[i].lang = "fr"
         THEN LET first == CHOOSE i \in DOMAIN det.langs :
                               /\ det.langs[i].lang = "fr"
                               /\ \A j \in 1..(i - 1) : det.langs[j].lang # "fr"
              IN  [is_french |-> TRUE, confidence |-> det.langs[first].prob]
         ELSE [is_french |-> FALSE, confidence |-> <<0, 1>>]

(***************************************************************************)
(* load_model (translator.py).  The body runs under _model_lock, so one    *)
(* call is one step on the globals _model and _processor.                  *)
(***************************************************************************)
EngineNone == [model |-> "None", processor |-> "None"]

\* How far the initialization body gets on one call that runs it.
LoadOutcomes == {"ok", "processor_raises", "model_raises", "to_device_raises"}

\* A call that finds _model set runs no initialization: it can only return.
OutcomesAt(eng) == IF eng.model # "None" THEN {"ok"} ELSE LoadOutcomes

\* load_model(): the globals after the call, and whether it raised.
load_model(eng, outcome) ==
    IF eng.model # "None"
    THEN [engine |-> eng, raised |-> FALSE]
    ELSE CASE outcome = "processor_raises" ->
                [engine |-> eng, raised |-> TRUE]
           [] outcome = "model_raises" ->
                [engine |-> [eng EXCEPT !.processor = "loaded"], raised |-> TRUE]
           [] outcome = "to_device_raises" ->
                [engine |-> [model |-> "not_on_device", processor |-> "loaded"],
                 raised |-> TRUE]
           [] OTHER ->
                [engine |-> [model |-> "loaded", processor |-> "loaded"],
                 raised |-> FALSE]

(***************************************************************************)
(* Inbound frames and outbound events of one websocket connection.         *)
(***************************************************************************)
Sessions == {1, 2}

\* A frame as the client sends it.  json: "invalid" is not JSON, "nonobject"
\* is JSON but no object (a list, a number).  type "None" is a missing (or
\* null) type field.  textKind: "str", "absent" (no text field) or "nonstr"
\* (a number, null).
Frame(json, type, textKind, text) ==
    [json |-> json, type |-> type, textKind |-> textKind, text |-> text]

TextMerci == <<" ", "M", "e", "r", "c", "i", "!", " ">>
TextJeLe  == <<"J", "e", " ", "l", "e">>
\* Blank: a space, a form feed, a tab, a no-break space.
TextBlank == <<" ", "\f", "\t", " ">>

Frames ==
    { Frame("invalid",   "None",      "absent", <<>>),
      Frame("nonobject", "None",      "absent", <<>>),
      Frame("object",    "translate", "nonstr", <<>>),
      Frame("object",    "translate", "str",    TextMerci),
      Frame("object",    "translate", "str",    TextBlank),
      Frame("object",    "detect",    "str",    TextJeLe),
      Frame("object",    "detect",    "str",    <<>>),
      Frame("object",    "bogus",     "str",    TextJeLe),
      Frame("object",    "None",      "str",    TextJeLe),
      Frame("object",    "bogus",     "absent", <<>>) }

\* message.get("text", "").strip(), for a frame on which it does not raise
TextOf(f) == strip(IF f.textKind = "str" THEN f.text ELSE <<>>)

\* Dispatch testing the text for emptiness before trimming it.
Dispatch_NoTrim(f) ==
    IF f.json = "invalid" THEN "JSONDecodeError"
    ELSE IF f.json = "nonobject" THEN "AttributeError"
    ELSE IF f.textKind = "nonstr" THEN "AttributeError"
    ELSE IF (IF f.textKind = "str" THEN f.text ELSE <<>>) = <<>> THEN "empty"
    ELSE IF f.type = "detect" THEN "detect"
    ELSE IF f.type = "translate" THEN "translate"
    ELSE "unknown"

\* Dispatch with if/else instead of if/elif/else: what is no detect is a
\* translate.
Dispatch_DefaultTranslate(f) ==
    IF f.json = "invalid" THEN "JSONDecodeError"
    ELSE IF f.json = "nonobject" THEN "AttributeError"
    ELSE IF f.textKind = "nonstr" THEN "AttributeError"
    ELSE IF TextOf(f) = <<>> THEN "empty"
    ELSE IF f.type = "detect" THEN "detect"
    ELSE "translate"

\* The branch of the receive loop a frame takes (main.py, 179-242).
Dispatch(f) ==
    IF f.json = "invalid" THEN "JSONDecodeError"
    ELSE IF f.json = "nonobject" THEN "AttributeError"
    ELSE IF f.textKind = "nonstr" THEN "AttributeError"
    ELSE IF TextOf(f) = <<>> THEN "empty"
    ELSE IF f.type = "detect" THEN "detect"
    ELSE IF f.type = "translate" THEN "translate"
    ELSE "unknown"

\* An outbound event.  msg is the index of the inbound frame it answers
\* (history, not on the wire).  message is the pieces of an f-string.
Event(k, type, text, message, is_french, confidence) ==
    [msg |-> k, type |-> type, text |-> text, message |-> message,
     is_french |-> is_french, confidence |-> confidence]

EvError(k, message)  == Event(k, "error", <<>>, message, FALSE, <<0, 1>>)
EvStart(k, original) == Event(k, "translation_start", original, <<>>, FALSE, <<0, 1>>)
EvChunk(k, chunk)    == Event(k, "translation_chunk", chunk, <<>>, FALSE, <<0, 1>>)
\* EvEnd without the final strip()
EvEnd_NoStrip(k, full) == Event(k, "translation_end", full, <<>>, FALSE, <<0, 1>>)
EvEnd(k, full)       == Event(k, "translation_end", strip(full), <<>>, FALSE, <<0, 1>>)
EvDetect(k, text, r) == Event(k, "detection_result", text, <<>>, r.is_french, r.confidence)

\* What a send_json on a closed connection raises depends on the ASGI stack.
SendFailures == {"WebSocketDisconnect", "RuntimeError"}

\* Pieces the real engine's streamer puts on its queue: it also puts "".
Tokens == { <<>>, <<" ", "a", " ">> }

Tok(text) == [stop |-> FALSE, text |-> text]
StopSignal == [stop |-> TRUE, text |-> <<>>]

NoGen == [stage |-> "none", text |-> <<>>, full |-> <<>>, rest |-> <<>>,
          produced |-> 0]

\* The threads that call load_model: the worker thread of startup_event's
\* asyncio.to_thread, and the event loop's thread, on which every session's
\* translate_french_to_english_stream and translate_text run.
Loaders == {"startup", "loop"}

\* load_model called by nobody yet.  at: each thread's position in
\* load_model; returned: the (model, processor) pairs returned so far, in
\* order; built: models constructed by from_pretrained; bodies: times the
\* initialization body was entered; raised: calls that raised.
NoLoading ==
    [lock |-> "free",
     at |-> [t \in Loaders |-> "idle"],
     calls |-> [t \in Loaders |-> 0],
     returned |-> <<>>,
     built |-> 0,
     bodies |-> 0,
     raised |-> 0]

VARIABLES
    useMock,    \* USE_MOCK
    engine,     \* the globals _model, _processor
    startup,    \* the pre-load task of startup_event
    pc,         \* per session: where websocket_translate is
    connected,  \* per session: the client end is still there
    pending,    \* per session: the frames sent and not yet received, in
                \* order: of each, whether a generation was in progress as
                \* it arrived (its content is read by receive_text)
    recvlog,    \* per session: every frame receive_text has returned, in
                \* order, each with that mark of its arrival
    nrecv,      \* per session: how many frames receive_text has returned
    out,        \* per session: the events send_json delivered, in order
    gen,        \* per session: the generation in progress
    queue,      \* per session: the streamer's queue
    thread,     \* per session: the generation thread
    lateSend,   \* per session: a send_json was attempted after one had failed
    probe,      \* the calls of detect_french made directly, with their results
    loading,    \* load_model: the lock, and each calling thread's position
    apiPc       \* where translate_text (POST /api/translate) is

\* The state of the direct calls, which no session touches.
side == <<probe, loading, apiPc>>

vars == <<useMock, engine, startup, pc, connected, pending, recvlog, nrecv,
          out, gen, queue, thread, lateSend, probe, loading, apiPc>>

(***************************************************************************)
(* Initial state: the module is imported, session 1 has been accepted.     *)
(***************************************************************************)
InitWith(present) ==
    /\ useMock \in BOOLEAN
    /\ engine = EngineNone
    /\ startup = IF useMock THEN "skipped" ELSE "pending"
    /\ pc = [s \in Sessions |-> IF s \in present THEN "receive" ELSE "off"]
    /\ connected = [s \in Sessions |-> s \in present]
    /\ pending = [s \in Sessions |-> <<>>]
    /\ recvlog = [s \in Sessions |-> <<>>]
    /\ nrecv = [s \in Sessions |-> 0]
    /\ out = [s \in Sessions |-> <<>>]
    /\ gen = [s \in Sessions |-> NoGen]
    /\ queue = [s \in Sessions |-> <<>>]
    /\ thread = [s \in Sessions |-> "none"]
    /\ lateSend = [s \in Sessions |-> FALSE]
    /\ probe = <<>>
    /\ loading = NoLoading
    /\ apiPc = "idle"

Init == InitWith({1})

\* The k-th frame received on the connection, and the index of the next.
FrameAt(s, k) == recvlog[s][k].frame
NextIndex(s) == nrecv[s] + 1
\* The index of the frame being answered while a generation runs.
CurIndex(s) == nrecv[s]

\* load_model() called on the event loop's own thread (translator.py, 134)
\* while the startup thread holds _model_lock: the with statement waits.
InLockWait(s) ==
    /\ ~useMock
    /\ pc[s] = "stream"
    /\ gen[s].stage = "lock"

\* for token in streamer: queue.get() with no timeout, called on the event
\* loop's own thread.  The thread is the coroutine's from that call until
\* the coroutine's next await, whether the queue holds a piece or not.
InQueueGet(s) ==
    /\ ~useMock
    /\ pc[s] = "stream"
    /\ gen[s].stage = "get"

\* Session s's coroutine holds the event loop's thread in a blocking call.
Blocking(s) == InQueueGet(s) \/ InLockWait(s)

\* Session s's coroutine can be scheduled: nothing else holds the thread.
LoopFree(s) ==
    /\ apiPc = "idle"
    /\ \A t \in Sessions \ {s} : ~Blocking(t)

\* A new request's handler can be scheduled.
LoopIdle == \A t \in Sessions : ~Blocking(t)

\* CanReceive for a handler that reads frames while a generation runs.
CanReceive_WhileStreaming(s) ==
    /\ pc[s] \in {"receive", "stream"}
    /\ pending[s] # <<>>
    /\ LoopFree(s)

CanReceive(s) ==
    /\ pc[s] = "receive"
    /\ pending[s] # <<>>
    /\ LoopFree(s)

(***************************************************************************)
(* The client.                                                             *)
(***************************************************************************)
\* The frames sent so far, on both connections.
FramesSent == nrecv[1] + Len(pending[1]) + nrecv[2] + Len(pending[2])

ClientSend(s) ==
    /\ pc[s] \in {"receive", "stream"}
    /\ connected[s]
    /\ FramesSent < MaxFrames
    /\ pending' = [pending EXCEPT ![s] = Append(@, pc[s] = "stream")]
    /\ UNCHANGED <<side, useMock, engine, startup, pc, connected, recvlog, nrecv, out,
                   gen, queue, thread, lateSend>>

ClientDisconnect(s) ==
    /\ pc[s] \in {"receive", "stream"}
    /\ connected[s]
    /\ connected' = [connected EXCEPT ![s] = FALSE]
    /\ UNCHANGED <<side, useMock, engine, startup, pc, pending, recvlog, nrecv, out,
                   gen, queue, thread, lateSend>>

(***************************************************************************)
(* startup_event: load_model in a worker thread; what it raises is lost.   *)
(***************************************************************************)
\* The worker thread enters load_model and takes _model_lock.  The calls
\* made on the event loop's thread are single steps here, so the lock is
\* free whenever the worker asks for it.
StartupBegin ==
    /\ startup = "pending"
    /\ startup' = "running"
    /\ UNCHANGED <<side, useMock, engine, pc, connected, pending, recvlog, nrecv, out,
                   gen, queue, thread, lateSend>>

\* The worker thread leaves load_model, by return or by exception, and
\* releases the lock.
StartupLoad(outcome) ==
    /\ startup = "running"
    /\ startup' = "done"
    /\ engine' = load_model(engine, outcome).engine
    /\ UNCHANGED <<side, useMock, pc, connected, pending, recvlog, nrecv, out, gen, queue,
                   thread, lateSend>>

(***************************************************************************)
(* translate_text (POST /api/translate) with the real engine: it calls     *)
(* translate_french_to_english on the event loop's thread, which calls     *)
(* load_model and then generates; the response, or the HTTP 500 made of    *)
(* what is raised, goes to the HTTP client.  With the mock it touches no   *)
(* global.                                                                 *)
(***************************************************************************)
\* load_model() finds _model_lock held by the startup thread and waits.
TranslateTextLock ==
    /\ ~useMock
    /\ apiPc = "idle"
    /\ LoopIdle
    /\ startup = "running"
    /\ apiPc' = "lock"
    /\ UNCHANGED <<probe, loading, useMock, engine, startup, pc, connected, pending,
                   recvlog, nrecv, out, gen, queue, thread, lateSend>>

\* The handler, from load_model taking the lock to the response.
TranslateText(outcome) ==
    /\ ~useMock
    /\ apiPc = "lock" \/ LoopIdle
    /\ startup # "running"
    /\ engine' = load_model(engine, outcome).engine
    /\ apiPc' = "idle"
    /\ UNCHANGED <<probe, loading, useMock, startup, pc, connected, pending,
                   recvlog, nrecv, out, gen, queue, thread, lateSend>>

(***************************************************************************)
(* websocket_translate: one pass of the receive loop, up to its next       *)
(* suspension.                                                             *)
(***************************************************************************)
\* A send_json of the loop outside the inner try.  On a closed connection it
\* raises; the outer handlers end the coroutine, the second one after
\* trying to send the error.
Deliver(s, ev, pcNext, genNext) ==
    IF connected[s]
    THEN /\ out' = [out EXCEPT ![s] = Append(@, ev)]
         /\ pc' = [pc EXCEPT ![s] = pcNext]
         /\ gen' = [gen EXCEPT ![s] = genNext]
         /\ lateSend' = lateSend
    ELSE \E exc \in SendFailures :
         /\ out' = out
         /\ pc' = [pc EXCEPT ![s] = "closed"]
         /\ gen' = [gen EXCEPT ![s] = NoGen]
         /\ lateSend' = [lateSend EXCEPT ![s] = @ \/ exc # "WebSocketDisconnect"]

\* The generator is dropped with the handler; the generation thread, if it
\* runs, goes on from where it is.
Abandoned(g) == [NoGen EXCEPT !.produced = g.produced]

\* DeliverInTry on a transport that drops what is sent on a closed
\* connection instead of raising from the handler's error send: the loop
\* goes on.
DeliverInTry_ErrorDropped(s, ev, pcNext, genNext) ==
    IF connected[s]
    THEN /\ out' = [out EXCEPT ![s] = Append(@, ev)]
         /\ pc' = [pc EXCEPT ![s] = pcNext]
         /\ gen' = [gen EXCEPT ![s] = genNext]
         /\ lateSend' = lateSend
    ELSE /\ out' = out
         /\ pc' = [pc EXCEPT ![s] = "receive"]
         /\ gen' = [gen EXCEPT ![s] = NoGen]
         /\ lateSend' = [lateSend EXCEPT ![s] = TRUE]

\* A send_json inside the inner try.  On a closed connection it raises, the
\* inner handler tries to send the error event, which raises again.
DeliverInTry(s, ev, pcNext, genNext) ==
    IF connected[s]
    THEN /\ out' = [out EXCEPT ![s] = Append(@, ev)]
         /\ pc' = [pc EXCEPT ![s] = pcNext]
         /\ gen' = [gen EXCEPT ![s] = genNext]
         /\ lateSend' = lateSend
    ELSE /\ out' = out
         /\ pc' = [pc EXCEPT ![s] = "closed"]
         /\ gen' = [gen EXCEPT ![s] = Abandoned(gen[s])]
         /\ lateSend' = [lateSend EXCEPT ![s] = TRUE]

\* receive_text returns frame f, the oldest pending one.
Receive(s, f) ==
    /\ CanReceive(s)
    /\ recvlog' = [recvlog EXCEPT ![s] =
                       Append(@, [frame |-> f, during |-> Head(pending[s])])]
    /\ pending' = [pending EXCEPT ![s] = Tail(@)]
    /\ nrecv' = [nrecv EXCEPT ![s] = @ + 1]

\* json.loads, message.get or .strip() raises: the outer handler sends
\* str(e) and the coroutine ends.
RecvMalformed(s, f) ==
    /\ Receive(s, f)
    /\ Dispatch(f) \in {"JSONDecodeError", "AttributeError"}
    /\ pc' = [pc EXCEPT ![s] = "closed"]
    /\ out' = [out EXCEPT ![s] =
                 IF connected[s]
                 THEN Append(@, EvError(NextIndex(s), <<Dispatch(f)>>))
                 ELSE @]
    /\ UNCHANGED <<side, useMock, engine, startup, connected, gen, queue,
                   thread, lateSend>>

RecvEmpty(s, f) ==
    /\ Receive(s, f)
    /\ Dispatch(f) = "empty"
    /\ Deliver(s, EvError(NextIndex(s), <<"Empty text received">>), "receive", NoGen)
    /\ UNCHANGED <<side, useMock, engine, startup, connected, queue, thread>>

\* RecvDetect with no fallback: a detector failure becomes an error event.
RecvDetect_NoFallback(s, f) ==
    /\ Receive(s, f)
    /\ Dispatch(f) = "detect"
    /\ \E det \in DetectorOutcomes :
         IF det.raises
         THEN Deliver(s, EvError(NextIndex(s), <<"Language detection failed">>),
                      "receive", NoGen)
         ELSE Deliver(s, EvDetect(NextIndex(s), TextOf(f),
                                  detect_french(TextOf(f), det)),
                      "receive", NoGen)
    /\ UNCHANGED <<side, useMock, engine, startup, connected, queue, thread>>

RecvDetect(s, f) ==
    /\ Receive(s, f)
    /\ Dispatch(f) = "detect"
    /\ \E det \in DetectorOutcomes :
         Deliver(s, EvDetect(NextIndex(s), TextOf(f),
                             detect_french(TextOf(f), det)),
                 "receive", NoGen)
    /\ UNCHANGED <<side, useMock, engine, startup, connected, queue, thread>>

\* The generation as the async for is entered.
NewGen(text) ==
    [stage |-> IF useMock THEN "iter" ELSE "init",
     text |-> text,
     full |-> <<>>,
     rest |-> IF useMock THEN translate_stream(text) ELSE <<>>,
     produced |-> 0]

RecvTranslate(s, f) ==
    /\ Receive(s, f)
    /\ Dispatch(f) = "translate"
    /\ Deliver(s, EvStart(NextIndex(s), TextOf(f)), "stream",
               NewGen(TextOf(f)))
    /\ UNCHANGED <<side, useMock, engine, startup, connected, queue, thread>>

\* RecvUnknown with no else branch: an unknown type is ignored.
RecvUnknown_Ignored(s, f) ==
    /\ Receive(s, f)
    /\ Dispatch(f) = "unknown"
    /\ UNCHANGED <<side, useMock, engine, startup, pc, connected, out, gen,
                   queue, thread, lateSend>>

RecvUnknown(s, f) ==
    /\ Receive(s, f)
    /\ Dispatch(f) = "unknown"
    /\ Deliver(s, EvError(NextIndex(s),
                          <<"Unknown message type: ", f.type>>),
               "receive", NoGen)
    /\ UNCHANGED <<side, useMock, engine, startup, connected, queue, thread>>

\* receive_text raises WebSocketDisconnect: logged, the coroutine ends.
RecvDisconnect(s) ==
    /\ pc[s] = "receive"
    /\ pending[s] = <<>>
    /\ ~connected[s]
    /\ LoopFree(s)
    /\ pc' = [pc EXCEPT ![s] = "closed"]
    /\ UNCHANGED <<side, useMock, engine, startup, connected, pending, recvlog, nrecv,
                   out, gen, queue, thread, lateSend>>

(***************************************************************************)
(* The mock engine: async for chunk in MockTranslator.translate_stream.    *)
(***************************************************************************)
MockChunk(s) ==
    /\ useMock
    /\ pc[s] = "stream"
    /\ gen[s].rest # <<>>
    /\ LoopFree(s)
    /\ LET chunk == Head(gen[s].rest)
       IN  DeliverInTry(s, EvChunk(CurIndex(s), chunk), "stream",
                        [gen[s] EXCEPT !.full = @ \o chunk, !.rest = Tail(@)])
    /\ UNCHANGED <<side, useMock, engine, startup, connected, pending, recvlog, nrecv, queue,
                   thread>>

MockEnd(s) ==
    /\ useMock
    /\ pc[s] = "stream"
    /\ gen[s].rest = <<>>
    /\ LoopFree(s)
    /\ DeliverInTry(s, EvEnd(CurIndex(s), gen[s].full), "receive", NoGen)
    /\ UNCHANGED <<side, useMock, engine, startup, connected, pending, recvlog, nrecv, queue,
                   thread>>

(***************************************************************************)
(* The real engine: translate_french_to_english_stream.                    *)
(***************************************************************************)
\* What the code between load_model and thread.start() does (chat template,
\* moving the inputs to the device, building the streamer).
PrepareOutcomes == {"ok", "raises"}

\* FailGeneration with the inner handler only logging: no terminal event.
FailGeneration_Silent(s, cause) ==
    /\ out' = out
    /\ pc' = [pc EXCEPT ![s] = "receive"]
    /\ lateSend' = lateSend

\* The error event of the inner handler, for an exception that is no failed
\* send; sending it on a closed connection raises into the outer handlers.
FailGeneration(s, cause) ==
    IF connected[s]
    THEN /\ out' = [out EXCEPT ![s] =
                      Append(@, EvError(CurIndex(s), <<"Translation failed: ", cause>>))]
         /\ pc' = [pc EXCEPT ![s] = "receive"]
         /\ lateSend' = lateSend
    ELSE \E exc \in SendFailures :
         /\ out' = out
         /\ pc' = [pc EXCEPT ![s] = "closed"]
         /\ lateSend' = [lateSend EXCEPT ![s] = @ \/ exc # "WebSocketDisconnect"]

\* The first __anext__ reaches load_model() while the startup thread holds
\* _model_lock.
BridgeLock(s) ==
    /\ ~useMock
    /\ pc[s] = "stream"
    /\ gen[s].stage = "init"
    /\ LoopFree(s)
    /\ startup = "running"
    /\ gen' = [gen EXCEPT ![s].stage = "lock"]
    /\ UNCHANGED <<side, useMock, engine, startup, pc, connected, pending, recvlog, nrecv,
                   out, queue, thread, lateSend>>

\* The first __anext__: from load_model taking the lock to thread.start().
BridgeStart(s, outcome, prepare) ==
    /\ ~useMock
    /\ pc[s] = "stream"
    /\ gen[s].stage \in {"init", "lock"}
    /\ LoopFree(s)
    /\ startup # "running"
    /\ LET r == load_model(engine, outcome)
       IN  /\ engine' = r.engine
           /\ IF r.raised \/ prepare = "raises"
              THEN /\ FailGeneration(s, IF r.raised THEN outcome ELSE "prepare")
                   /\ gen' = [gen EXCEPT ![s] = NoGen]
                   /\ UNCHANGED <<queue, thread>>
              ELSE /\ thread' = [thread EXCEPT ![s] = "running"]
                   /\ queue' = [queue EXCEPT ![s] = <<>>]
                   /\ gen' = [gen EXCEPT ![s].stage = "get"]
                   /\ UNCHANGED <<out, pc, lateSend>>
    /\ UNCHANGED <<side, useMock, startup, connected, pending, recvlog, nrecv>>

\* model.generate in its thread: the streamer puts a piece of text.
ProducerPut(s, tok) ==
    /\ thread[s] = "running"
    /\ gen[s].produced < MaxTokens
    /\ queue' = [queue EXCEPT ![s] = Append(@, Tok(tok))]
    /\ gen' = [gen EXCEPT ![s].produced = @ + 1]
    /\ UNCHANGED <<side, useMock, engine, startup, pc, connected, pending, recvlog, nrecv,
                   out, thread, lateSend>>

\* model.generate returns: streamer.end() puts the stop signal.
ProducerEnd(s) ==
    /\ thread[s] = "running"
    /\ queue' = [queue EXCEPT ![s] = Append(@, StopSignal)]
    /\ thread' = [thread EXCEPT ![s] = "finished"]
    /\ UNCHANGED <<side, useMock, engine, startup, pc, connected, pending, recvlog, nrecv,
                   out, gen, lateSend>>

\* model.generate raises: the exception ends the thread, nothing is put.
ProducerFail(s) ==
    /\ thread[s] = "running"
    /\ thread' = [thread EXCEPT ![s] = "failed"]
    /\ UNCHANGED <<side, useMock, engine, startup, pc, connected, pending, recvlog, nrecv,
                   out, gen, queue, lateSend>>

\* The send of a chunk has returned and the generator is resumed: the for
\* statement calls queue.get() on an empty queue.
BridgeWait(s) ==
    /\ ~useMock
    /\ pc[s] = "stream"
    /\ gen[s].stage = "iter"
    /\ queue[s] = <<>>
    /\ LoopFree(s)
    /\ gen' = [gen EXCEPT ![s].stage = "get"]
    /\ UNCHANGED <<side, useMock, engine, startup, pc, connected, pending, recvlog, nrecv,
                   out, queue, thread, lateSend>>

\* queue.get() returns a piece: called as the generator is resumed after
\* the send of a chunk (stage "iter"), or waited for (stage "get").
CanIterate(s) ==
    /\ ~useMock
    /\ pc[s] = "stream"
    /\ gen[s].stage \in {"iter", "get"}
    /\ queue[s] # <<>>
    /\ LoopFree(s)

\* for token in streamer: if token: yield token
BridgeChunk(s) ==
    /\ CanIterate(s)
    /\ ~Head(queue[s]).stop
    /\ Head(queue[s]).text # <<>>
    /\ queue' = [queue EXCEPT ![s] = Tail(@)]
    /\ LET token == Head(queue[s]).text
       IN  DeliverInTry(s, EvChunk(CurIndex(s), token), "stream",
                        [gen[s] EXCEPT !.full = @ \o token, !.stage = "iter"])
    /\ UNCHANGED <<side, useMock, engine, startup, connected, pending, recvlog, nrecv, thread>>

\* BridgeSkip without `if token`: the empty token is yielded and sent.
BridgeSkip_Yielded(s) ==
    /\ CanIterate(s)
    /\ ~Head(queue[s]).stop
    /\ Head(queue[s]).text = <<>>
    /\ queue' = [queue EXCEPT ![s] = Tail(@)]
    /\ DeliverInTry(s, EvChunk(CurIndex(s), <<>>), "stream",
                    [gen[s] EXCEPT !.stage = "iter"])
    /\ UNCHANGED <<side, useMock, engine, startup, connected, pending, recvlog,
                   nrecv, thread>>

\* for token in streamer: an empty token is not yielded; the for statement
\* calls queue.get() again, with no await in between.
BridgeSkip(s) ==
    /\ CanIterate(s)
    /\ ~Head(queue[s]).stop
    /\ Head(queue[s]).text = <<>>
    /\ queue' = [queue EXCEPT ![s] = Tail(@)]
    /\ gen' = [gen EXCEPT ![s].stage = "get"]
    /\ UNCHANGED <<side, useMock, engine, startup, pc, connected, pending, recvlog, nrecv,
                   out, thread, lateSend>>

\* The stop signal ends the for loop; thread.join(); translation_end.
BridgeEnd(s) ==
    /\ CanIterate(s)
    /\ Head(queue[s]).stop
    /\ queue' = [queue EXCEPT ![s] = Tail(@)]
    /\ thread' = [thread EXCEPT ![s] = "joined"]
    /\ DeliverInTry(s, EvEnd(CurIndex(s), gen[s].full), "receive", NoGen)
    /\ UNCHANGED <<side, useMock, engine, startup, connected, pending, recvlog, nrecv>>

(***************************************************************************)
(* Next-state relation.                                                    *)
(***************************************************************************)
Next ==
    \/ \E s \in Sessions : ClientSend(s)
    \/ \E s \in Sessions : ClientDisconnect(s)
    \/ StartupBegin
    \/ \E o \in OutcomesAt(engine) : StartupLoad(o)
    \/ TranslateTextLock
    \/ \E o \in OutcomesAt(engine) : TranslateText(o)
    \/ \E s \in Sessions, f \in Frames : RecvMalformed(s, f)
    \/ \E s \in Sessions, f \in Frames : RecvEmpty(s, f)
    \/ \E s \in Sessions, f \in Frames : RecvDetect(s, f)
    \/ \E s \in Sessions, f \in Frames : RecvTranslate(s, f)
    \/ \E s \in Sessions, f \in Frames : RecvUnknown(s, f)
    \/ \E s \in Sessions : RecvDisconnect(s)
    \/ \E s \in Sessions : MockChunk(s)
    \/ \E s \in Sessions : MockEnd(s)
    \/ \E s \in Sessions : BridgeLock(s)
    \/ \E s \in Sessions, o \in OutcomesAt(engine), p \in PrepareOutcomes : BridgeStart(s, o, p)
    \/ \E s \in Sessions, tok \in Tokens : ProducerPut(s, tok)
    \/ \E s \in Sessions : ProducerEnd(s)
    \/ \E s \in Sessions : ProducerFail(s)
    \/ \E s \in Sessions : BridgeWait(s)
    \/ \E s \in Sessions : BridgeChunk(s)
    \/ \E s \in Sessions : BridgeSkip(s)
    \/ \E s \in Sessions : BridgeEnd(s)

Spec == Init /\ [][Next]_vars

\* A generation in progress is driven on: the event loop resumes the
\* coroutine inside its async for whenever it can run, and the OS runs the
\* generation thread until model.generate returns or raises.
GenerationStep(s) ==
    \/ MockChunk(s) \/ MockEnd(s)
    \/ BridgeLock(s)
    \/ \E o \in OutcomesAt(engine), p \in PrepareOutcomes : BridgeStart(s, o, p)
    \/ BridgeWait(s) \/ BridgeChunk(s) \/ BridgeSkip(s) \/ BridgeEnd(s)

ProducerStep(s) == ProducerEnd(s) \/ ProducerFail(s)

\* The startup thread runs load_model to its end, and a translate_text that
\* waited for the lock goes on once the lock is free.
StartupStep == StartupBegin \/ \E o \in OutcomesAt(engine) : StartupLoad(o)

TranslateTextResume ==
    apiPc = "lock" /\ \E o \in OutcomesAt(engine) : TranslateText(o)

FairSpec ==
    /\ Init
    /\ [][Next]_vars
    /\ \A s \in Sessions : WF_vars(GenerationStep(s)) /\ WF_vars(ProducerStep(s))
    /\ WF_vars(StartupStep)
    /\ WF_vars(TranslateTextResume)

\* Two connections accepted, their handlers on the one event loop.
TwoSpec == InitWith({1, 2}) /\ [][Next]_vars

(***************************************************************************)
(* load_model line by line, called from its two threads (translator.py,    *)
(* 27-61).  engine is the pair of globals; a handle is what a call         *)
(* returns, with the construction it comes from.                           *)
(***************************************************************************)
LoadRest == <<useMock, startup, pc, connected, pending, recvlog, nrecv, out,
              gen, queue, thread, lateSend, probe, apiPc>>

Handle == [model |-> engine.model, processor |-> engine.processor,
           build |-> loading.built]

\* startup_event calls load_model once, the sessions any number of times.
LoadCall(t) ==
    /\ loading.at[t] = "idle"
    /\ loading.calls[t] < (IF t = "startup" THEN 1 ELSE MaxLoads)
    /\ loading' = [loading EXCEPT !.at[t] = "acquire", !.calls[t] = @ + 1]
    /\ UNCHANGED <<engine, LoadRest>>

\* LoadAcquire entering the with block without taking the lock.
LoadAcquire_NoLock(t) ==
    /\ loading.at[t] = "acquire"
    /\ loading' = [loading EXCEPT !.at[t] = "check"]
    /\ UNCHANGED <<engine, LoadRest>>

\* with _model_lock:
LoadAcquire(t) ==
    /\ loading.at[t] = "acquire"
    /\ loading.lock = "free"
    /\ loading' = [loading EXCEPT !.at[t] = "check", !.lock = t]
    /\ UNCHANGED <<engine, LoadRest>>

\* Leaving the with block: the lock is released if this thread holds it.
Released(t) == IF loading.lock = t THEN "free" ELSE loading.lock

\* if _model is not None: return _model, _processor
LoadCheck(t) ==
    /\ loading.at[t] = "check"
    /\ IF engine.model # "None"
       THEN loading' = [loading EXCEPT !.at[t] = "idle", !.lock = Released(t),
                                       !.returned = Append(@, Handle)]
       ELSE loading' = [loading EXCEPT !.at[t] = "processor", !.bodies = @ + 1]
    /\ UNCHANGED <<engine, LoadRest>>

\* An exception leaves load_model through the with block.
LoadRaise(t) ==
    loading' = [loading EXCEPT !.at[t] = "idle", !.lock = Released(t),
                               !.raised = @ + 1]

\* _processor = AutoProcessor.from_pretrained(model_id)
LoadProcessor(t, ok) ==
    /\ loading.at[t] = "processor"
    /\ IF ok
       THEN /\ engine' = [engine EXCEPT !.processor = "loaded"]
            /\ loading' = [loading EXCEPT !.at[t] = "model"]
       ELSE /\ engine' = engine
            /\ LoadRaise(t)
    /\ UNCHANGED LoadRest

\* _model = Gemma3ForConditionalGeneration.from_pretrained(...)
LoadModel(t, ok) ==
    /\ loading.at[t] = "model"
    /\ IF ok
       THEN /\ engine' = [engine EXCEPT !.model = "not_on_device"]
            /\ loading' = [loading EXCEPT !.at[t] = "to_device", !.built = @ + 1]
       ELSE /\ engine' = engine
            /\ LoadRaise(t)
    /\ UNCHANGED LoadRest

\* if device != "cuda": _model = _model.to(device)
LoadToDevice(t, ok) ==
    /\ loading.at[t] = "to_device"
    /\ IF ok
       THEN /\ engine' = [engine EXCEPT !.model = "loaded"]
            /\ loading' = [loading EXCEPT !.at[t] = "return"]
       ELSE /\ engine' = engine
            /\ LoadRaise(t)
    /\ UNCHANGED LoadRest

\* return _model, _processor
LoadReturn(t) ==
    /\ loading.at[t] = "return"
    /\ loading' = [loading EXCEPT !.at[t] = "idle", !.lock = Released(t),
                                   !.returned = Append(@, Handle)]
    /\ UNCHANGED <<engine, LoadRest>>

LoadNext ==
    \/ \E t \in Loaders : LoadCall(t)
    \/ \E t \in Loaders : LoadAcquire(t)
    \/ \E t \in Loaders : LoadCheck(t)
    \/ \E t \in Loaders, ok \in BOOLEAN : LoadProcessor(t, ok)
    \/ \E t \in Loaders, ok \in BOOLEAN : LoadModel(t, ok)
    \/ \E t \in Loaders, ok \in BOOLEAN : LoadToDevice(t, ok)
    \/ \E t \in Loaders : LoadReturn(t)

\* No connection yet; the real engine, not loaded.
LoadInit == InitWith({}) /\ ~useMock

LoadSpec == LoadInit /\ [][LoadNext]_vars

(***************************************************************************)
(* The mock deployment (USE_MOCK_TRANSLATOR=true): the same handler, with  *)
(* a client that also sends the example of the documentation.              *)
(***************************************************************************)
TextBonjour == <<"B", "o", "n", "j", "o", "u", "r", " ", "l", "e", " ",
                 "m", "o", "n", "d", "e">>

\* Two words parted by a no-break space, with accented capitals.
TextEteBien == <<"É", "T", "É", " ", "B", "i", "e", "n">>

MockFrames ==
    Frames \cup { Frame("object", "translate", "str", TextBonjour),
                  Frame("object", "translate", "str", TextEteBien) }

MockInit == Init /\ useMock

MockNext ==
    \/ \E s \in Sessions : ClientSend(s)
    \/ \E s \in Sessions : ClientDisconnect(s)
    \/ \E s \in Sessions, f \in MockFrames : RecvMalformed(s, f)
    \/ \E s \in Sessions, f \in MockFrames : RecvEmpty(s, f)
    \/ \E s \in Sessions, f \in MockFrames : RecvDetect(s, f)
    \/ \E s \in Sessions, f \in MockFrames : RecvTranslate(s, f)
    \/ \E s \in Sessions, f \in MockFrames : RecvUnknown(s, f)
    \/ \E s \in Sessions : RecvDisconnect(s)
    \/ \E s \in Sessions : MockChunk(s)
    \/ \E s \in Sessions : MockEnd(s)

MockSpec == MockInit /\ [][MockNext]_vars

(***************************************************************************)
(* detect_french called directly (as /api/detect-language and the tests    *)
(* call it), several times on one text.                                    *)
(***************************************************************************)
ProbeWords ==
    { <<"J", "e">>, <<"s", "u", "i", "s">>, <<"c", "o", "n", "t", "e", "n", "t">>,
      <<"L", "E">>, <<"o", "u", "i", "!">> }

\* Ten words, three of them in french_indicators: confidence 0.3 exactly.
TextThreeOfTen ==
    <<"j", "e", " ", "x", " ", "x", " ", "l", "e", " ", "x", " ", "x", " ",
      "d", "e", " ", "x", " ", "x", " ", "x">>

\* Two indicator words parted by a form feed, the second after an accented
\* word and a no-break space.
TextJeFormFeedLe == <<"J", "E", "\f", "É", "t", "é", " ", "l", "e">>

\* The texts: one to MaxWords of the words, separated by one space.
ProbeTexts ==
    { join(<<" ">>, ws) : ws \in UNION { [1..n -> ProbeWords] : n \in 1..MaxWords } }
        \cup { TextThreeOfTen, TextJeFormFeedLe }

CallDetect(text, det) ==
    /\ Len(probe) < MaxCalls
    /\ probe # <<>> => text = probe[1].text
    /\ probe' = Append(probe, [text |-> text, raised |-> det.raises,
                                ret |-> detect_french(text, det)])
    /\ UNCHANGED <<loading, apiPc, useMock, engine, startup, pc, connected, pending,
                   recvlog, nrecv, out, gen, queue, thread, lateSend>>

\* The text of a call: any of the texts on the first, the same one afterwards.
CallTexts == IF probe = <<>> THEN ProbeTexts ELSE {probe[1].text}

DetectNext == \E text \in CallTexts, det \in DetectorOutcomes : CallDetect(text, det)

DetectSpec == InitWith({}) /\ [][DetectNext]_vars

(***************************************************************************)
(* Vocabulary of the properties.                                           *)
(***************************************************************************)
\* The events that answer frame k of session s, in emission order.
EventsOf(s, k) == SelectSeq(out[s], LAMBDA e : e.msg = k)

Terminal == {"translation_end", "error"}

\* The handler is done with frame k: it is back at receive_text or further.
Answered(s, k) ==
    \/ k < nrecv[s]
    \/ k = nrecv[s] /\ pc[s] = "receive"

\* start, chunk*, terminal
IsGenerationGroup(g) ==
    /\ Len(g) >= 2
    /\ g[1].type = "translation_start"
    /\ g[Len(g)].type \in Terminal
    /\ \A i \in 2..(Len(g) - 1) : g[i].type = "translation_chunk"

\* A beginning of start, chunk*, terminal
IsGenerationPrefix(g) ==
    /\ g # <<>> => g[1].type = "translation_start"
    /\ \A i \in 2..Len(g) : g[i].type \in Terminal \cup {"translation_chunk"}
    /\ \A i \in 2..(Len(g) - 1) : g[i].type = "translation_chunk"

\* The frame is a JSON object whose text, trimmed, is this non-empty string.
WellFormed(f) == f.json = "object" /\ f.textKind # "nonstr"
HasText(f) == WellFormed(f) /\ strip(IF f.textKind = "str" THEN f.text ELSE <<>>) # <<>>
IsTranslate(f) == HasText(f) /\ f.type = "translate"
IsDetect(f) == HasText(f) /\ f.type = "detect"

(***************************************************************************)
(* C1.  The events that answer a Translate frame with non-empty text are   *)
(* one translation_start, then translation_chunk events, then one terminal *)
(* event (translation_end or error), in that order: at every moment they   *)
(* are a beginning of that sequence, they are the whole of it once the     *)
(* handler is back at receive_text, and no event of a later frame precedes *)
(* any of them.                                                            *)
(***************************************************************************)
C1_GenerationSequence ==
    \A s \in Sessions : \A k \in 1..nrecv[s] :
        IsTranslate(FrameAt(s, k)) =>
            /\ IsGenerationPrefix(EventsOf(s, k))
            /\ Answered(s, k) => IsGenerationGroup(EventsOf(s, k))
            /\ \A i, j \in DOMAIN out[s] :
                   (i < j /\ out[s][j].msg = k) => out[s][i].msg <= k

\* Two generations on one connection, the first with chunks and complete,
\* the second begun.
C1_Witness ==
    \E s \in Sessions : \E k1, k2 \in 1..nrecv[s] :
        /\ k1 < k2
        /\ IsTranslate(FrameAt(s, k1)) /\ IsTranslate(FrameAt(s, k2))
        /\ IsGenerationGroup(EventsOf(s, k1))
        /\ Len(EventsOf(s, k1)) >= 3
        /\ EventsOf(s, k2) # <<>>

(***************************************************************************)
(* C9.  The events of one connection come in the order of the frames that  *)
(* caused them and are never interleaved: the frame indices along out      *)
(* never decrease, only received frames have events, every frame the       *)
(* handler is done with has exactly one response group (one                *)
(* detection_result, one error, or start..terminal), and a frame that      *)
(* ended the handler on an open connection has its one error.              *)
(***************************************************************************)
IsResponseGroup(g) ==
    \/ Len(g) = 1 /\ g[1].type \in {"detection_result", "error"}
    \/ IsGenerationGroup(g)

C9_SingleWriterOrder ==
    \A s \in Sessions :
        /\ \A i, j \in DOMAIN out[s] : i < j => out[s][i].msg <= out[s][j].msg
        /\ \A i \in DOMAIN out[s] : out[s][i].msg \in 1..nrecv[s]
        /\ \A k \in 1..nrecv[s] :
               /\ Answered(s, k) => IsResponseGroup(EventsOf(s, k))
               /\ Len(EventsOf(s, k)) > 1 => IsGenerationPrefix(EventsOf(s, k))
               /\ (~WellFormed(FrameAt(s, k)) /\ connected[s]) =>
                      IsResponseGroup(EventsOf(s, k))

\* A Detect that arrived during a generation, answered after its whole group.
C9_Witness ==
    \E s \in Sessions :
        /\ nrecv[s] = 2
        /\ Answered(s, 2)
        /\ recvlog[s][2].during
        /\ IsGenerationGroup(EventsOf(s, 1))
        /\ Len(EventsOf(s, 2)) = 1
        /\ EventsOf(s, 2)[1].type = "detection_result"
        /\ out[s] = EventsOf(s, 1) \o EventsOf(s, 2)

\* The chunk fields of the translation_chunk events of a group, in order.
ChunkTexts(g) ==
    LET chunks == SelectSeq(g, LAMBDA e : e.type = "translation_chunk")
    IN  [i \in DOMAIN chunks |-> chunks[i].text]

EmptyTextError(k) ==
    [msg |-> k, type |-> "error", text |-> <<>>,
     message |-> <<"Empty text received">>,
     is_french |-> FALSE, confidence |-> <<0, 1>>]

(***************************************************************************)
(* C2, as claimed.  A Translate frame that arrived while a generation was  *)
(* in progress is rejected: every event that answers it is an error, and   *)
(* there is exactly one once the handler is done with it.                  *)
(***************************************************************************)
C2_SecondTranslateRejected ==
    \A s \in Sessions : \A k \in 1..nrecv[s] :
        (IsTranslate(FrameAt(s, k)) /\ recvlog[s][k].during) =>
            /\ \A i \in DOMAIN EventsOf(s, k) : EventsOf(s, k)[i].type = "error"
            /\ Answered(s, k) => Len(EventsOf(s, k)) = 1

(***************************************************************************)
(* C2, amended.  A Translate frame that arrived while a generation was in  *)
(* progress waits unread (only received frames have events, see C9):       *)
(* nothing answers it before every earlier generation has its terminal     *)
(* event, and it is then handled as any Translate, its first event a       *)
(* translation_start carrying its text.  The generation in flight is not   *)
(* altered: with the mock engine its chunks are those of translate_stream  *)
(* and its terminal event is translation_end.                              *)
(***************************************************************************)
C2_SecondTranslateDeferred ==
    \A s \in Sessions : \A k \in 1..nrecv[s] :
        (IsTranslate(FrameAt(s, k)) /\ recvlog[s][k].during) =>
            /\ (connected[s] \/ Answered(s, k)) =>
                   /\ EventsOf(s, k) # <<>>
                   /\ EventsOf(s, k)[1].type = "translation_start"
                   /\ EventsOf(s, k)[1].text = strip(FrameAt(s, k).text)
            /\ \A j \in 1..(k - 1) :
                   IsTranslate(FrameAt(s, j)) =>
                       /\ EventsOf(s, k) # <<>> => IsGenerationGroup(EventsOf(s, j))
                       /\ (useMock /\ Answered(s, j)) =>
                              /\ ChunkTexts(EventsOf(s, j)) =
                                     translate_stream(strip(FrameAt(s, j).text))
                              /\ EventsOf(s, j)[Len(EventsOf(s, j))].type =
                                     "translation_end"

\* The second Translate arrived during the first generation and was begun
\* after the first one's terminal event.
C2_Witness ==
    \E s \in Sessions :
        /\ nrecv[s] = 2
        /\ IsTranslate(FrameAt(s, 1)) /\ IsTranslate(FrameAt(s, 2))
        /\ recvlog[s][2].during
        /\ IsGenerationGroup(EventsOf(s, 1))
        /\ Len(EventsOf(s, 2)) >= 1
        /\ EventsOf(s, 2)[1].type = "translation_start"

(***************************************************************************)
(* C3, as claimed.  After the generation thread has failed, the session    *)
(* sends the error event of that generation and is back at receive_text    *)
(* (or the client has gone).                                               *)
(***************************************************************************)
C3_FailedGenerationRecovers ==
    \A s \in Sessions :
        (thread[s] = "failed" /\ pc[s] = "stream")
            ~> \/ ~connected[s]
               \/ /\ pc[s] = "receive"
                  /\ out[s] # <<>>
                  /\ out[s][Len(out[s])].type = "error"

(***************************************************************************)
(* C4, as claimed.  A producer that has failed has signalled it: the       *)
(* consumer is never left waiting on the empty queue of a dead producer.   *)
(***************************************************************************)
C4_ProducerFailureSignalled ==
    \A s \in Sessions :
        (thread[s] = "failed" /\ pc[s] = "stream") => ~Blocking(s)

(***************************************************************************)
(* C5, as claimed.  A malformed frame (not JSON, no JSON object, or a text *)
(* that is no string) received on an open connection is answered by one   *)
(* error event and the handler keeps running.                              *)
(***************************************************************************)
C5_MalformedKeepsSession ==
    \A s \in Sessions : \A k \in 1..nrecv[s] :
        (~WellFormed(FrameAt(s, k)) /\ connected[s]) =>
            /\ Len(EventsOf(s, k)) = 1
            /\ EventsOf(s, k)[1].type = "error"
            /\ pc[s] # "closed"

(***************************************************************************)
(* C6.  Receiving, on an open connection, a frame of any type whose text   *)
(* is absent or empty after trimming appends exactly the error event       *)
(* "Empty text received", leaves the handler at receive_text, and starts   *)
(* no generation: the generation, its thread, its queue and the engine     *)
(* are unchanged.                                                          *)
(***************************************************************************)
C6_EmptyTextRejected ==
    [][\A s \in Sessions :
          (/\ nrecv'[s] = nrecv[s] + 1
           /\ WellFormed(recvlog'[s][nrecv'[s]].frame)
           /\ ~HasText(recvlog'[s][nrecv'[s]].frame)
           /\ connected[s]) =>
              /\ out'[s] = Append(out[s], EmptyTextError(nrecv[s] + 1))
              /\ pc'[s] = "receive"
              /\ gen'[s] = gen[s]
              /\ thread'[s] = thread[s]
              /\ queue'[s] = queue[s]
              /\ engine' = engine]_vars

\* A Translate of whitespace only got the error, and the loop went on to
\* receive the next frame.
C6_Witness ==
    \E s \in Sessions :
        /\ nrecv[s] = 2
        /\ FrameAt(s, 1).type = "translate"
        /\ FrameAt(s, 1).text = TextBlank
        /\ EventsOf(s, 1) = <<EmptyTextError(1)>>
        /\ EventsOf(s, 2) # <<>>

(***************************************************************************)
(* C7, as claimed.  Every frame whose type is neither "translate" nor      *)
(* "detect" is answered by exactly one error event naming the type.        *)
(***************************************************************************)
UnknownTypeError(k, type) ==
    [msg |-> k, type |-> "error", text |-> <<>>,
     message |-> <<"Unknown message type: ", type>>,
     is_french |-> FALSE, confidence |-> <<0, 1>>]

C7_UnknownTypeNamed ==
    \A s \in Sessions : \A k \in 1..nrecv[s] :
        (/\ WellFormed(FrameAt(s, k))
         /\ FrameAt(s, k).type \notin {"translate", "detect"}
         /\ Answered(s, k)) =>
            EventsOf(s, k) = <<UnknownTypeError(k, FrameAt(s, k).type)>>

(***************************************************************************)
(* C7, amended.  Every frame with non-empty text whose type is neither     *)
(* "translate" nor "detect" (a missing type included) is answered, on an   *)
(* open connection, by exactly one error event naming the type; no         *)
(* generation is started and the handler is back at receive_text.          *)
(***************************************************************************)
C7_UnknownTypeWithTextNamed ==
    \A s \in Sessions : \A k \in 1..nrecv[s] :
        (/\ HasText(FrameAt(s, k))
         /\ FrameAt(s, k).type \notin {"translate", "detect"}
         /\ (connected[s] \/ Answered(s, k))) =>
            /\ EventsOf(s, k) = <<UnknownTypeError(k, FrameAt(s, k).type)>>
            /\ k = nrecv[s] => (pc[s] = "receive" /\ gen[s] = NoGen)

\* A frame with no type field got its error, and the next frame was received.
C7_Witness ==
    \E s \in Sessions :
        /\ nrecv[s] = 2
        /\ HasText(FrameAt(s, 1))
        /\ FrameAt(s, 1).type = "None"
        /\ EventsOf(s, 1) = <<UnknownTypeError(1, "None")>>
        /\ EventsOf(s, 2) # <<>>

(***************************************************************************)
(* C8.  Receiving, on an open connection, a Detect frame with non-empty    *)
(* text appends exactly one detection_result event carrying the text and   *)
(* the result of detect_french, whatever the detector does (it returns     *)
(* candidates or it raises), never an error; the generation, its thread    *)
(* and its queue are unchanged and the handler stays at receive_text.      *)
(***************************************************************************)
C8_DetectAlwaysAnswered ==
    [][\A s \in Sessions :
          (/\ nrecv'[s] = nrecv[s] + 1
           /\ IsDetect(recvlog'[s][nrecv'[s]].frame)
           /\ connected[s]) =>
              /\ Len(out'[s]) = Len(out[s]) + 1
              /\ SubSeq(out'[s], 1, Len(out[s])) = out[s]
              /\ LET e == out'[s][Len(out'[s])]
                     text == strip(recvlog'[s][nrecv'[s]].frame.text)
                 IN  /\ e.type = "detection_result"
                     /\ e.msg = nrecv[s] + 1
                     /\ e.text = text
                     /\ \E det \in DetectorOutcomes :
                            /\ e.is_french = detect_french(text, det).is_french
                            /\ e.confidence = detect_french(text, det).confidence
              /\ pc'[s] = pc[s]
              /\ gen'[s] = gen[s]
              /\ thread'[s] = thread[s]
              /\ queue'[s] = queue[s]]_vars

\* A Detect that arrived during a generation, answered from the fallback
\* after the detector raised.
C8_Witness ==
    \E s \in Sessions : \E k \in 1..nrecv[s] :
        /\ IsDetect(FrameAt(s, k))
        /\ recvlog[s][k].during
        /\ Len(EventsOf(s, k)) = 1
        /\ EventsOf(s, k)[1].type = "detection_result"
        /\ EventsOf(s, k)[1].is_french
        /\ EventsOf(s, k)[1].confidence = <<2, 2>>

(***************************************************************************)
(* C10.  In every generation that ends with translation_end, its           *)
(* full_translation is the concatenation of the chunk fields of the        *)
(* generation's translation_chunk events, in order, trimmed; with the mock *)
(* engine it is also MockTranslator.translate of the text.                 *)
(***************************************************************************)
C10_FullTranslation ==
    \A s \in Sessions : \A k \in 1..nrecv[s] :
        LET g == EventsOf(s, k)
        IN  (IsGenerationGroup(g) /\ g[Len(g)].type = "translation_end") =>
                /\ g[Len(g)].text = strip(concat(ChunkTexts(g)))
                /\ useMock => g[Len(g)].text = translate(strip(FrameAt(s, k).text))

\* A mock generation of several chunks has ended.
C10_Witness ==
    \E s \in Sessions : \E k \in 1..nrecv[s] :
        /\ useMock
        /\ IsGenerationGroup(EventsOf(s, k))
        /\ Len(EventsOf(s, k)) >= 4
        /\ EventsOf(s, k)[Len(EventsOf(s, k))].type = "translation_end"
        /\ EventsOf(s, k)[Len(EventsOf(s, k))].text # <<>>

(***************************************************************************)
(* C11, as claimed.  With the mock engine, a Translate of "Bonjour le      *)
(* monde" the handler is done with was answered by translation_start with  *)
(* that text, one or more translation_chunk, and translation_end with      *)
(* full_translation "hello [le] [monde]".                                  *)
(***************************************************************************)
IsBonjour(f) == IsTranslate(f) /\ strip(f.text) = TextBonjour

\* start{original: "Bonjour le monde"}, chunk+, end{full_translation: full}
BonjourAnswer(g, k, full) ==
    /\ Len(g) >= 3
    /\ g[1] = EvStart(k, TextBonjour)
    /\ \A i \in 2..(Len(g) - 1) : g[i].type = "translation_chunk"
    /\ g[Len(g)].type = "translation_end"
    /\ g[Len(g)].msg = k
    /\ g[Len(g)].text = full

C11_BonjourBracketsMonde ==
    \A s \in Sessions : \A k \in 1..nrecv[s] :
        (useMock /\ IsBonjour(FrameAt(s, k)) /\ Answered(s, k)) =>
            BonjourAnswer(EventsOf(s, k), k,
                          <<"h", "e", "l", "l", "o", " ", "[", "l", "e", "]", " ",
                            "[", "m", "o", "n", "d", "e", "]">>)

(***************************************************************************)
(* C11, amended.  The same, with full_translation "hello [le] world":      *)
(* "monde" is in MOCK_TRANSLATIONS, "le" is not.                           *)
(***************************************************************************)
C11_BonjourLeMonde ==
    \A s \in Sessions : \A k \in 1..nrecv[s] :
        (useMock /\ IsBonjour(FrameAt(s, k)) /\ Answered(s, k)) =>
            BonjourAnswer(EventsOf(s, k), k,
                          <<"h", "e", "l", "l", "o", " ", "[", "l", "e", "]", " ",
                            "w", "o", "r", "l", "d">>)

\* "Bonjour le monde" was translated, in three chunks.
C11_Witness ==
    \E s \in Sessions : \E k \in 1..nrecv[s] :
        /\ useMock
        /\ IsBonjour(FrameAt(s, k))
        /\ Answered(s, k)
        /\ ChunkTexts(EventsOf(s, k)) =
               << <<"h", "e", "l", "l", "o", " ">>, <<"[", "l", "e", "]", " ">>,
                  <<"w", "o", "r", "l", "d", " ">> >>

(***************************************************************************)
(* C12.  detect_french returns a confidence in [0,1] for every non-empty   *)
(* text.  When the detector raises, the result is the lexical fallback:    *)
(* confidence is the number of lower-cased whitespace tokens that are in   *)
(* french_indicators over max(number of tokens, 1), is_french is           *)
(* confidence > 0.3 strictly; a text of list words only is French, "Je     *)
(* suis content" gives 2/3 and French, and two calls on one text in which  *)
(* the detector raised give the same result.                               *)
(***************************************************************************)
TextJeSuisContent ==
    <<"J", "e", " ", "s", "u", "i", "s", " ", "c", "o", "n", "t", "e", "n", "t">>

C12_DetectFallback ==
    \A i \in DOMAIN probe :
        LET c == probe[i]
            num == c.ret.confidence[1]
            den == c.ret.confidence[2]
            tokens == split(lower(c.text))
            listed == SelectSeq(tokens, LAMBDA w : w \in french_indicators)
        IN  /\ den > 0 /\ 0 <= num /\ num <= den
            /\ c.raised =>
                   /\ num = Len(listed)
                   /\ den = IF Len(tokens) = 0 THEN 1 ELSE Len(tokens)
                   /\ c.ret.is_french <=> 10 * num > 3 * den
                   /\ (tokens # <<>> /\ listed = tokens) => c.ret.is_french
                   /\ c.text = TextJeSuisContent =>
                          c.ret.confidence = <<2, 3>> /\ c.ret.is_french
                   /\ \A j \in DOMAIN probe : probe[j].raised => probe[j].ret = c.ret

\* "Je suis content" twice with a failing detector: 2/3 and French, twice.
C12_Witness ==
    /\ Len(probe) = 2
    /\ probe[1].text = TextJeSuisContent
    /\ probe[1].raised /\ probe[2].raised
    /\ probe[1].ret = [is_french |-> TRUE, confidence |-> <<2, 3>>]
    /\ probe[2].ret = probe[1].ret

(***************************************************************************)
(* C13.  At most one generation thread is alive per session: the handler   *)
(* is never back at receive_text while the thread of a generation of its   *)
(* connection is running, whether that generation ended with               *)
(* translation_end or with an error, and the step that starts the thread   *)
(* of a new generation never finds the thread of an earlier one running.   *)
(***************************************************************************)
C13_OneProducerPerSession ==
    /\ [](\A s \in Sessions : pc[s] = "receive" => thread[s] # "running")
    /\ [][\A s \in Sessions :
             (gen[s].stage \in {"init", "lock"} /\ gen'[s].stage = "get") =>
                 thread[s] # "running"]_vars

\* The thread of a second generation runs; the first generation streamed a
\* chunk and ended, its thread joined.
C13_Witness ==
    \E s \in Sessions :
        /\ ~useMock
        /\ nrecv[s] = 2
        /\ IsTranslate(FrameAt(s, 1)) /\ IsTranslate(FrameAt(s, 2))
        /\ IsGenerationGroup(EventsOf(s, 1))
        /\ Len(EventsOf(s, 1)) >= 3
        /\ thread[s] = "running"
        /\ gen[s].stage \in {"iter", "get"}

(***************************************************************************)
(* C14, as claimed.  No generation thread outlives its invocation unowned: *)
(* once the handler of a session has ended, the thread of its last         *)
(* generation, if one was started, has been joined.                        *)
(***************************************************************************)
C14_ProducerJoined ==
    \A s \in Sessions :
        pc[s] = "closed" => thread[s] \in {"none", "joined"}

(***************************************************************************)
(* C15, as claimed.  While one session is generating and waits for the     *)
(* next chunk (the first included), the other sessions are not blocked:    *)
(* one that has a frame to read can read it, one that has a token to       *)
(* forward can forward it.                                                 *)
(***************************************************************************)
WaitingForChunk(s) ==
    /\ pc[s] = "stream"
    /\ useMock \/ (gen[s].stage = "get" /\ queue[s] = <<>>)

C15_OtherSessionsProgress ==
    \A s, t \in Sessions :
        (s # t /\ WaitingForChunk(s)) =>
            /\ (pc[t] = "receive" /\ pending[t] # <<>>) => CanReceive(t)
            /\ (~useMock /\ pc[t] = "stream" /\ gen[t].stage = "iter"
                    /\ queue[t] # <<>>) => CanIterate(t)

(***************************************************************************)
(* C16.  Under every interleaving of the load_model calls of the startup   *)
(* thread and of the event loop's thread, the engine is constructed        *)
(* once: the initialization body runs under the lock, in one thread at a   *)
(* time; the model is built at most once, and the body is entered at most  *)
(* once as long as no initialization has raised; every call that returns   *)
(* yields the same (model, processor) pair, and once a call has returned   *)
(* the globals never change.                                               *)
(***************************************************************************)
InBody(t) == loading.at[t] \in {"check", "processor", "model", "to_device", "return"}

C16_EngineConstructedOnce ==
    /\ [](/\ \A t, u \in Loaders : (InBody(t) /\ InBody(u)) => t = u
          /\ \A t \in Loaders : InBody(t) => loading.lock = t
          /\ loading.built <= 1
          /\ loading.raised = 0 => loading.bodies <= 1
          /\ \A i, j \in DOMAIN loading.returned :
                 loading.returned[i] = loading.returned[j])
    /\ [][loading.returned # <<>> => engine' = engine]_vars

\* The startup thread and a session both called load_model and both got
\* the engine, built once.
C16_Witness ==
    /\ loading.calls["startup"] = 1
    /\ loading.calls["loop"] = 1
    /\ Len(loading.returned) = 2
    /\ loading.returned[1].model = "loaded"
    /\ loading.bodies = 1
    /\ loading.built = 1

(***************************************************************************)
(* C17, as claimed.  A model left by an initialization that failed is      *)
(* never handed to a later caller: a generation thread is only started     *)
(* with the model of an initialization that ran to its end, because every  *)
(* attempt that follows a failure runs the initialization again.           *)
(***************************************************************************)
C17_FailedInitializationRetried ==
    \A s \in Sessions : thread[s] # "none" => engine.model = "loaded"

(***************************************************************************)
(* C18, as claimed.  The bridge yields every piece the producer put on the *)
(* streamer, the empty ones included: each time the real engine's bridge   *)
(* takes a piece from the queue on an open connection, one                 *)
(* translation_chunk carrying that piece is sent.                          *)
(***************************************************************************)
TakesToken(s) ==
    /\ ~useMock
    /\ pc[s] = "stream"
    /\ gen[s].stage \in {"iter", "get"}
    /\ queue[s] # <<>>
    /\ ~Head(queue[s]).stop
    /\ queue'[s] = Tail(queue[s])

TakesStop(s) ==
    /\ ~useMock
    /\ pc[s] = "stream"
    /\ gen[s].stage \in {"iter", "get"}
    /\ queue[s] # <<>>
    /\ Head(queue[s]).stop
    /\ queue'[s] = Tail(queue[s])

C18_EveryChunkYielded ==
    [][\A s \in Sessions :
          (TakesToken(s) /\ connected[s]) =>
              out'[s] = Append(out[s], EvChunk(CurIndex(s), Head(queue[s]).text))]_vars

(***************************************************************************)
(* C18, amended.  The bridge yields exactly the non-empty pieces, in the   *)
(* order they were put: the queue is first in, first out; a non-empty      *)
(* piece taken from it is sent as one translation_chunk carrying it and    *)
(* is added to full_translation, an empty piece is dropped; no chunk is    *)
(* sent that was not taken from the queue; the stop signal ends the        *)
(* generation normally (the thread joined, translation_end sent).          *)
(***************************************************************************)
C18_NonEmptyChunksYielded ==
    [][\A s \in Sessions :
          /\ (/\ gen[s].stage \in {"iter", "get"}
              /\ gen'[s].stage \in {"iter", "get"}
              /\ ~useMock) =>
                 \/ queue'[s] = queue[s]
                 \/ queue[s] # <<>> /\ queue'[s] = Tail(queue[s])
                 \/ \E tok \in Tokens : queue'[s] = Append(queue[s], Tok(tok))
                 \/ queue'[s] = Append(queue[s], StopSignal)
          /\ (TakesToken(s) /\ connected[s]) =>
                 LET token == Head(queue[s]).text
                 IN  IF token = <<>>
                     THEN out'[s] = out[s] /\ gen'[s].full = gen[s].full
                     ELSE /\ out'[s] = Append(out[s], EvChunk(CurIndex(s), token))
                          /\ gen'[s].full = gen[s].full \o token
          /\ (TakesStop(s) /\ connected[s]) =>
                 /\ out'[s] = Append(out[s], EvEnd(CurIndex(s), gen[s].full))
                 /\ thread'[s] = "joined"
                 /\ pc'[s] = "receive"
          /\ (/\ ~useMock
              /\ Len(out'[s]) > Len(out[s])
              /\ out'[s][Len(out'[s])].type = "translation_chunk") =>
                 TakesToken(s)]_vars

\* The producer has put two pieces, both were taken from the queue, and one
\* translation_chunk was sent: the other piece was empty.
C18_Witness ==
    \E s \in Sessions :
        /\ ~useMock
        /\ pc[s] = "stream"
        /\ gen[s].produced = 2
        /\ queue[s] = <<>>
        /\ Len(ChunkTexts(EventsOf(s, CurIndex(s)))) = 1

(***************************************************************************)
(* C19, as claimed.  A session whose client has gone is torn down          *)
(* silently.  When the handler has ended, either at receive_text or after  *)
(* a translation_start (the disconnect was then observed on a send of the  *)
(* generation, or at a later receive_text), it has attempted no send_json  *)
(* after the one that failed.                                              *)
(***************************************************************************)
C19_SilentTeardown ==
    \A s \in Sessions :
        (/\ pc[s] = "closed"
         /\ \/ nrecv[s] = 0
            \/ /\ IsTranslate(FrameAt(s, nrecv[s]))
               /\ EventsOf(s, nrecv[s]) # <<>>) =>
            ~lateSend[s]

====
